---- MODULE Spec2Model ----
(***************************************************************************)
(* Progress tracker, quiz scorer and learning workflow of the autonomous   *)
(* learning agent (src/src/modules/progress_tracker.py,                    *)
(* src/src/modules/answer_evaluator.py, src/src/graph/learning_graph.py).  *)
(*                                                                         *)
(* The tracker is a process-wide singleton.  Its public methods are        *)
(* modelled one action each and may be called in any order with any id.    *)
(* Scores are Python floats in [0,1]; they are modelled as exact fractions *)
(* of hundredths, [num, den] in lowest terms, so 0.70 is [num 70, den 1].  *)
(* Timestamps are modelled by whether they have been stamped.              *)
(***************************************************************************)
EXTENDS Integers, Sequences, FiniteSets, TLC

\* ------------------------------------------------------------- bounds
\* Checkpoint ids a caller may pass; a session holds one of them, so the other
\* is an id the session does not know.
Ids == {"a", "b"}
\* _checkpoints_order is never cleared; start_session is explored while it
\* stays within this length.
MaxOrderLen == 2
\* max_attempts the tracker is constructed with.
MaxAttemptsInit == 2
\* start_quiz is explored while attempt_count is below this.
MaxAttemptCount == 3
\* record_quiz_result is explored while the session holds fewer history
\* entries than this.
MaxRecords == 2
\* evaluate_quiz is explored while the session holds fewer history entries
\* than this.
MaxGraded == 1
\* Longest quiz graded by evaluate_quiz.
MaxQuestions == 2
\* add_documents is explored while the store and its index hold no more
\* documents than this.
MaxStored == 3
\* Longest text, in paragraphs, chunked by _store_in_vector_db.
MaxParagraphs == 4

\* ------------------------------------------------------- program constants
\* UNDERSTANDING_THRESHOLD default, in hundredths.
PassThresholdPct == 70
\* Weak-concept cutoff (score < 0.5), in hundredths.
WeakCutoffPct == 50

None == "None"

VARIABLES
    max_attempts,            \* ProgressTracker.max_attempts
    session_active,          \* ProgressTracker.session is not None
    checkpoints,             \* session.checkpoints: id -> CheckpointProgress
    checkpoint_keys,         \* insertion order of session.checkpoints
    current_checkpoint_id,   \* session.current_checkpoint_id
    completed_checkpoints,   \* session.completed_checkpoints
    checkpoints_order,       \* ProgressTracker._checkpoints_order
    documents,               \* VectorStore.documents, in insertion order
    id_to_index,             \* VectorStore.id_to_index
    index_to_id,             \* VectorStore.index_to_id
    index,                   \* the vectors of VectorStore.index, in order
    FAISS_AVAILABLE,         \* whether the import of faiss succeeded
    session_state,           \* st.session_state of the learner's browser session
    ret                      \* the last call: method, argument, outcome, value

vars == <<max_attempts, session_active, checkpoints, checkpoint_keys,
          current_checkpoint_id, completed_checkpoints, checkpoints_order,
          documents, id_to_index, index_to_id, index, FAISS_AVAILABLE,
          session_state, ret>>

tracker == <<max_attempts, session_active, checkpoints, checkpoint_keys,
             current_checkpoint_id, completed_checkpoints, checkpoints_order>>

vector_store == <<documents, id_to_index, index_to_id, index, FAISS_AVAILABLE>>

\* ------------------------------------------------------------- helpers
RECURSIVE GCD(_, _)
GCD(m, n) == IF n = 0 THEN m ELSE GCD(n, m % n)

\* A float score as a fraction of hundredths in lowest terms.
Frac(n, d) ==
    IF n = 0 THEN [num |-> 0, den |-> 1]
    ELSE [num |-> n \div GCD(n, d), den |-> d \div GCD(n, d)]

ScoreGT(x, y) == x.num * y.den > y.num * x.den
ScoreGE(x, y) == x.num * y.den >= y.num * x.den

\* Float arithmetic on scores, exact: x + y, x - y (for x >= y), x * y and
\* x / n for a positive integer n.
ScoreAdd(x, y) == Frac(x.num * y.den + y.num * x.den, x.den * y.den)
ScoreSub(x, y) == Frac(x.num * y.den - y.num * x.den, x.den * y.den)
ScoreMul(x, y) == Frac(x.num * y.num, x.den * y.den * 100)
ScoreDiv(x, n) == Frac(x.num, x.den * n)
ScoreMin(x, y) == IF ScoreGE(x, y) THEN y ELSE x
ScoreMax(x, y) == IF ScoreGE(x, y) THEN x ELSE y

pass_threshold == Frac(PassThresholdPct, 1)

Range(s) == {s[i] : i \in 1..Len(s)}

NoDup(s) == \A i, j \in 1..Len(s) : s[i] = s[j] => i = j

\* list.index(x), 1-based; 0 when x is not in the list (ValueError caught).
IndexOf(s, x) ==
    IF x \in Range(s)
    THEN CHOOSE i \in 1..Len(s) : s[i] = x /\ \A j \in 1..(i - 1) : s[j] # x
    ELSE 0

\* ---------------------------------------------------- CheckpointStatus
NOT_STARTED == "not_started"
IN_PROGRESS == "in_progress"
STUDYING == "studying"
QUIZ_IN_PROGRESS == "quiz_in_progress"
NEEDS_TEACHING == "needs_teaching"
PASSED == "passed"
FAILED == "failed"

CheckpointStatus ==
    {NOT_STARTED, IN_PROGRESS, STUDYING, QUIZ_IN_PROGRESS, NEEDS_TEACHING,
     PASSED, FAILED}

\* --------------------------------------------------- CheckpointProgress
CheckpointProgress(cp_id, max) ==
    [checkpoint_id |-> cp_id,
     status |-> NOT_STARTED,
     attempt_count |-> 0,
     max_attempts |-> max,
     best_score |-> Frac(0, 1),
     last_score |-> Frac(0, 1),
     weak_concepts |-> <<>>,
     started_at |-> FALSE,
     completed_at |-> FALSE,
     study_material_loaded |-> FALSE,
     quiz_results |-> <<>>]

attempts_remaining(p) ==
    IF p.max_attempts - p.attempt_count > 0
    THEN p.max_attempts - p.attempt_count
    ELSE 0

\* Mutant of can_retry: the limit is tested one attempt too late.
can_retry_one_more(p) == p.attempt_count <= p.max_attempts /\ p.status # PASSED

can_retry(p) == attempts_remaining(p) > 0 /\ p.status # PASSED

\* ------------------------------------------------------------- inputs
RECURSIVE SeqsUpTo(_, _)
SeqsUpTo(S, n) ==
    IF n = 0 THEN {<<>>}
    ELSE LET shorter == SeqsUpTo(S, n - 1)
         IN  shorter \cup {Append(s, x) : s \in shorter, x \in S}

\* Topic lists given to start_session: no topic, or one.
TopicLists == {<<>>} \cup {<<cp_id>> : cp_id \in Ids}

\* Objective of the question at position i of a quiz: the questions cycle
\* through the checkpoint's objectives.
Objectives == <<"o1", "o2">>
objective_of(i) == Objectives[((i - 1) % Len(Objectives)) + 1]

\* Arguments a caller passes to record_quiz_result: a failed quiz with a weak
\* concept, and a passed quiz.
RecordInputs ==
    {[score |-> Frac(0, 1), passed |-> FALSE, weak_concepts |-> <<"o1">>],
     [score |-> Frac(100, 1), passed |-> TRUE, weak_concepts |-> <<>>]}

\* Number of history entries the session holds.
HistoryLen ==
    LET RECURSIVE Sum(_)
        Sum(k) == IF k = 0 THEN 0
                  ELSE Len(checkpoints[checkpoint_keys[k]].quiz_results) + Sum(k - 1)
    IN  Sum(Len(checkpoint_keys))

\* ------------------------------------------------------- call outcomes
Return(op, arg, value) ==
    ret' = [op |-> op, arg |-> arg, outcome |-> "ok", value |-> value]

\* Mutant of Raise: the lookup hands back a default object instead of raising.
ReturnDefault(op, arg) ==
    /\ ret' = [op |-> op, arg |-> arg, outcome |-> "ok", value |-> None]
    /\ UNCHANGED tracker

\* raise ValueError(...): the call ends without touching the tracker.
Raise(op, arg) ==
    /\ ret' = [op |-> op, arg |-> arg, outcome |-> "ValueError", value |-> None]
    /\ UNCHANGED tracker

\* ProgressTracker._get_progress finds the checkpoint (does not raise).
get_progress_found(checkpoint_id) ==
    /\ session_active
    /\ checkpoint_id \in DOMAIN checkpoints

\* ------------------------------------------------------------ tracker
\* A dict without entries.
EmptyDict == [key \in {} |-> None]

\* VectorStore.__init__ in a build where faiss is or is not installed; the
\* index of a build without faiss is None and stays without vectors.
VectorStore_init(faiss_installed) ==
    /\ documents = <<>>
    /\ id_to_index = EmptyDict
    /\ index_to_id = EmptyDict
    /\ index = <<>>
    /\ FAISS_AVAILABLE = faiss_installed

\* ProgressTracker.__init__, and the call that has not been made yet.
ProgressTracker_init ==
    /\ max_attempts = MaxAttemptsInit
    /\ session_active = FALSE
    /\ checkpoints = [cp_id \in {} |-> CheckpointProgress(cp_id, max_attempts)]
    /\ checkpoint_keys = <<>>
    /\ current_checkpoint_id = None
    /\ completed_checkpoints = <<>>
    /\ checkpoints_order = <<>>
    /\ ret = [op |-> "init", arg |-> None, outcome |-> "ok", value |-> None]

\* init_session_state: the defaults of the keys the pages read.
init_session_state ==
    session_state = [session_started |-> FALSE,
                     current_checkpoint_id |-> None,
                     questions |-> 0,
                     quiz_submitted |-> FALSE,
                     quiz_result |-> <<>>,
                     feynman_content |-> FALSE,
                     attempt_number |-> 0]

\* The application started with faiss installed.
Init == ProgressTracker_init /\ VectorStore_init(TRUE) /\ init_session_state

\* The application started without faiss: searches scan the documents.
InitFallback ==
    ProgressTracker_init /\ VectorStore_init(FALSE) /\ init_session_state

\* The id _checkpoints_order[0] names after the new topics were appended.
first_of_order(order) == IF order # <<>> THEN order[1] ELSE None

\* The order list start_session leaves: the new ids are appended to it.
order_after_start_session(order, topics) == order \o topics

\* The tracker after start_session.
StartSessionEffect(topics) ==
    /\ checkpoints' = [cp_id \in Range(topics) |-> CheckpointProgress(cp_id, max_attempts)]
    /\ checkpoint_keys' = topics
    /\ checkpoints_order' = order_after_start_session(checkpoints_order, topics)
    /\ current_checkpoint_id' = first_of_order(checkpoints_order')
    /\ completed_checkpoints' = <<>>
    /\ session_active' = TRUE
    /\ UNCHANGED max_attempts

start_session(topics) ==
    /\ StartSessionEffect(topics)
    /\ Return("start_session", topics, None)

start_checkpoint(checkpoint_id) ==
    IF ~session_active \/ checkpoint_id \notin DOMAIN checkpoints
    THEN Raise("start_checkpoint", checkpoint_id)
    ELSE /\ checkpoints' =
                IF checkpoints[checkpoint_id].status = NOT_STARTED
                THEN [checkpoints EXCEPT ![checkpoint_id].status = STUDYING,
                                         ![checkpoint_id].started_at = TRUE]
                ELSE checkpoints
         /\ current_checkpoint_id' = checkpoint_id
         /\ Return("start_checkpoint", checkpoint_id, checkpoint_id)
         /\ UNCHANGED <<max_attempts, session_active, checkpoint_keys,
                        completed_checkpoints, checkpoints_order>>

\* The tracker after mark_study_complete found the checkpoint.
StudyCompleteEffect(checkpoint_id) ==
    /\ checkpoints' = [checkpoints EXCEPT
           ![checkpoint_id].study_material_loaded = TRUE,
           ![checkpoint_id].status = IN_PROGRESS]
    /\ UNCHANGED <<max_attempts, session_active, checkpoint_keys,
                   current_checkpoint_id, completed_checkpoints,
                   checkpoints_order>>

mark_study_complete(checkpoint_id) ==
    IF ~get_progress_found(checkpoint_id)
    THEN Raise("mark_study_complete", checkpoint_id)
    ELSE /\ StudyCompleteEffect(checkpoint_id)
         /\ Return("mark_study_complete", checkpoint_id, checkpoint_id)

\* What start_quiz does to the progress object.
quiz_started(p) ==
    [p EXCEPT !.status = QUIZ_IN_PROGRESS, !.attempt_count = p.attempt_count + 1]

\* The tracker after start_quiz found the checkpoint.
StartQuizEffect(checkpoint_id) ==
    /\ checkpoints' = [checkpoints EXCEPT
           ![checkpoint_id] = quiz_started(checkpoints[checkpoint_id])]
    /\ UNCHANGED <<max_attempts, session_active, checkpoint_keys,
                   current_checkpoint_id, completed_checkpoints,
                   checkpoints_order>>

start_quiz(checkpoint_id) ==
    IF ~get_progress_found(checkpoint_id)
    THEN Raise("start_quiz", checkpoint_id)
    ELSE /\ StartQuizEffect(checkpoint_id)
         /\ Return("start_quiz", checkpoint_id, checkpoint_id)

\* progress.weak_concepts after the new concepts were merged in, in order.
RECURSIVE merged_weak(_, _)
merged_weak(existing, new) ==
    IF new = <<>> THEN existing
    ELSE merged_weak(IF Head(new) \in Range(existing) THEN existing
                     ELSE Append(existing, Head(new)),
                     Tail(new))

\* Mutant of completed_with: the id is appended without the membership test.
completed_with_always(completed, checkpoint_id) == Append(completed, checkpoint_id)

\* session.completed_checkpoints after a passed quiz of checkpoint_id.
completed_with(completed, checkpoint_id) ==
    IF checkpoint_id \notin Range(completed)
    THEN Append(completed, checkpoint_id)
    ELSE completed

\* The status record_quiz_result sets, from the progress as it was on entry.
status_after_result(p, passed) ==
    IF passed THEN PASSED
    ELSE IF can_retry(p) THEN NEEDS_TEACHING
    ELSE FAILED

\* Mutant of best_after_result: the newest score always becomes the best.
best_after_result_newest(p, score) == score

\* The best_score record_quiz_result leaves.
best_after_result(p, score) ==
    IF ScoreGT(score, p.best_score) THEN score ELSE p.best_score

\* Mutant of result_recorded: the attempt is consumed at submission as well.
result_recorded_counting(p, score, passed, weak_concepts) ==
    [p EXCEPT
        !.last_score = score,
        !.best_score = best_after_result(p, score),
        !.weak_concepts = merged_weak(p.weak_concepts, weak_concepts),
        !.quiz_results = Append(p.quiz_results,
            [attempt |-> p.attempt_count, score |-> score, passed |-> passed,
             weak_concepts |-> weak_concepts]),
        !.status = status_after_result(p, passed),
        !.completed_at = IF passed THEN TRUE ELSE p.completed_at,
        !.attempt_count = p.attempt_count + 1]

\* What record_quiz_result does to the progress object.
result_recorded(p, score, passed, weak_concepts) ==
    [p EXCEPT
        !.last_score = score,
        !.best_score = best_after_result(p, score),
        !.weak_concepts = merged_weak(p.weak_concepts, weak_concepts),
        !.quiz_results = Append(p.quiz_results,
            [attempt |-> p.attempt_count, score |-> score, passed |-> passed,
             weak_concepts |-> weak_concepts]),
        !.status = status_after_result(p, passed),
        !.completed_at = IF passed THEN TRUE ELSE p.completed_at]

\* The tracker after record_quiz_result found the checkpoint.
RecordEffect(checkpoint_id, score, passed, weak_concepts) ==
    /\ checkpoints' = [checkpoints EXCEPT ![checkpoint_id] =
            result_recorded(checkpoints[checkpoint_id], score, passed, weak_concepts)]
    /\ completed_checkpoints' =
            IF passed THEN completed_with(completed_checkpoints, checkpoint_id)
            ELSE completed_checkpoints
    /\ UNCHANGED <<max_attempts, session_active, checkpoint_keys,
                   current_checkpoint_id, checkpoints_order>>

record_quiz_result(checkpoint_id, score, passed, weak_concepts) ==
    IF ~get_progress_found(checkpoint_id)
    THEN Raise("record_quiz_result", checkpoint_id)
    ELSE /\ RecordEffect(checkpoint_id, score, passed, weak_concepts)
         /\ Return("record_quiz_result", checkpoint_id,
                   [score |-> score, passed |-> passed])

\* Mutant of complete_teaching: the teaching also hands the attempts back.
complete_teaching_resetting(checkpoint_id) ==
    IF ~get_progress_found(checkpoint_id)
    THEN Raise("complete_teaching", checkpoint_id)
    ELSE /\ checkpoints' =
                IF checkpoints[checkpoint_id].status = NEEDS_TEACHING
                THEN [checkpoints EXCEPT ![checkpoint_id].status = IN_PROGRESS,
                                         ![checkpoint_id].attempt_count = 0]
                ELSE checkpoints
         /\ Return("complete_teaching", checkpoint_id, checkpoint_id)
         /\ UNCHANGED <<max_attempts, session_active, checkpoint_keys,
                        current_checkpoint_id, completed_checkpoints,
                        checkpoints_order>>

\* The tracker after complete_teaching found the checkpoint.
CompleteTeachingEffect(checkpoint_id) ==
    /\ checkpoints' =
           IF checkpoints[checkpoint_id].status = NEEDS_TEACHING
           THEN [checkpoints EXCEPT ![checkpoint_id].status = IN_PROGRESS]
           ELSE checkpoints
    /\ UNCHANGED <<max_attempts, session_active, checkpoint_keys,
                   current_checkpoint_id, completed_checkpoints,
                   checkpoints_order>>

complete_teaching(checkpoint_id) ==
    IF ~get_progress_found(checkpoint_id)
    THEN Raise("complete_teaching", checkpoint_id)
    ELSE /\ CompleteTeachingEffect(checkpoint_id)
         /\ Return("complete_teaching", checkpoint_id, checkpoint_id)

\* Index in _checkpoints_order the scan of move_to_next_checkpoint starts after.
current_idx ==
    IF current_checkpoint_id # None
    THEN IndexOf(checkpoints_order, current_checkpoint_id)
    ELSE 0

\* Positions of _checkpoints_order the scan would stop at.
next_candidates ==
    {i \in (current_idx + 1)..Len(checkpoints_order) :
        /\ checkpoints_order[i] \in DOMAIN checkpoints
        /\ checkpoints[checkpoints_order[i]].status # PASSED}

move_to_next_checkpoint ==
    IF ~session_active
    THEN /\ Return("move_to_next_checkpoint", None, None)
         /\ UNCHANGED tracker
    ELSE IF next_candidates # {}
    THEN LET i == CHOOSE k \in next_candidates : \A j \in next_candidates : k <= j
         IN  /\ current_checkpoint_id' = checkpoints_order[i]
             /\ Return("move_to_next_checkpoint", None, checkpoints_order[i])
             /\ UNCHANGED <<max_attempts, session_active, checkpoints,
                            checkpoint_keys, completed_checkpoints,
                            checkpoints_order>>
    ELSE /\ Return("move_to_next_checkpoint", None, None)
         /\ UNCHANGED tracker

\* session.total_checkpoints
total_checkpoints == Cardinality(DOMAIN checkpoints)

\* The "checkpoints" list of get_progress_summary: one entry for every id of
\* _checkpoints_order that the session knows.
checkpoints_summary ==
    LET known == SelectSeq(checkpoints_order,
                           LAMBDA cp_id : cp_id \in DOMAIN checkpoints)
    IN  [i \in 1..Len(known) |->
            [id |-> known[i],
             status |-> checkpoints[known[i]].status,
             attempts |-> checkpoints[known[i]].attempt_count,
             passed |-> checkpoints[known[i]].status = PASSED]]

can_proceed_to_next(checkpoint_id) ==
    IF ~get_progress_found(checkpoint_id)
    THEN Raise("can_proceed_to_next", checkpoint_id)
    ELSE /\ Return("can_proceed_to_next", checkpoint_id,
                   checkpoints[checkpoint_id].status = PASSED)
         /\ UNCHANGED tracker

\* ------------------------------------------------------ answer evaluator
\* A Python str is the sequence of its characters.
Whitespace == {" ", "\n", "\t"}

Upper == <<"A", "B", "C", "D", "E", "F", "G", "H", "I", "J", "K", "L", "M", "N", "O", "P", "Q", "R", "S", "T", "U", "V", "W", "X", "Y", "Z">>
Lower == <<"a", "b", "c", "d", "e", "f", "g", "h", "i", "j", "k", "l", "m", "n", "o", "p", "q", "r", "s", "t", "u", "v", "w", "x", "y", "z">>

lower_char(c) == IF c \in Range(Upper) THEN Lower[IndexOf(Upper, c)] ELSE c

\* str.lower()
lower(s) == [i \in 1..Len(s) |-> lower_char(s[i])]

RECURSIVE lstrip(_)
lstrip(s) ==
    IF Len(s) > 0 /\ s[1] \in Whitespace THEN lstrip(SubSeq(s, 2, Len(s))) ELSE s

RECURSIVE rstrip(_)
rstrip(s) ==
    IF Len(s) > 0 /\ s[Len(s)] \in Whitespace
    THEN rstrip(SubSeq(s, 1, Len(s) - 1))
    ELSE s

\* str.strip()
strip(s) == rstrip(lstrip(s))

\* sub in text
Contains(sub, text) ==
    \E i \in 1..(Len(text) - Len(sub) + 1) :
        SubSeq(text, i, i + Len(sub) - 1) = sub

\* text.endswith(suffix)
EndsWith(text, suffix) ==
    /\ Len(text) >= Len(suffix)
    /\ SubSeq(text, Len(text) - Len(suffix) + 1, Len(text)) = suffix

\* text[:-n]
DropLast(text, n) == SubSeq(text, 1, Len(text) - n)

\* s[0] if s else ""
first_letter(s) == IF Len(s) > 0 THEN SubSeq(s, 1, 1) ELSE <<>>

EvaluationResult(question_id, is_correct, score, matched_keywords, missing_keywords) ==
    [question_id |-> question_id,
     is_correct |-> is_correct,
     score |-> score,
     matched_keywords |-> matched_keywords,
     missing_keywords |-> missing_keywords]

\* Mutant of _evaluate_multiple_choice: the whole answers are compared.
evaluate_multiple_choice_whole(question, user_answer) ==
    LET correct == strip(lower(question.correct_answer))
        is_correct == user_answer = correct
    IN  EvaluationResult(question.id, is_correct,
                         IF is_correct THEN Frac(100, 1) ELSE Frac(0, 1),
                         IF is_correct THEN <<first_letter(user_answer)>> ELSE <<>>,
                         IF ~is_correct THEN <<first_letter(correct)>> ELSE <<>>)

_evaluate_multiple_choice(question, user_answer) ==
    LET correct == strip(lower(question.correct_answer))
        user_letter == first_letter(user_answer)
        correct_letter == first_letter(correct)
        is_correct == user_letter = correct_letter
    IN  EvaluationResult(question.id, is_correct,
                         IF is_correct THEN Frac(100, 1) ELSE Frac(0, 1),
                         IF is_correct THEN <<user_letter>> ELSE <<>>,
                         IF ~is_correct THEN <<correct_letter>> ELSE <<>>)

true_variants ==
    <<<<"t", "r", "u", "e">>,
      <<"t">>,
      <<"y", "e", "s">>,
      <<"y">>,
      <<"1">>,
      <<"c", "o", "r", "r", "e", "c", "t">>>>

false_variants ==
    <<<<"f", "a", "l", "s", "e">>,
      <<"f">>,
      <<"n", "o">>,
      <<"n">>,
      <<"0">>,
      <<"i", "n", "c", "o", "r", "r", "e", "c", "t">>,
      <<"w", "r", "o", "n", "g">>>>

\* any(v in text for v in variants)
any_variant_in(variants, text) ==
    \E i \in 1..Len(variants) : Contains(variants[i], text)

_evaluate_true_false(question, user_answer) ==
    LET correct == strip(lower(question.correct_answer))
        user_is_true == any_variant_in(true_variants, user_answer)
        user_is_false == any_variant_in(false_variants, user_answer)
        correct_is_true == any_variant_in(true_variants, correct)
        is_correct == \/ user_is_true /\ correct_is_true
                      \/ user_is_false /\ ~correct_is_true
    IN  EvaluationResult(question.id, is_correct,
                         IF is_correct THEN Frac(100, 1) ELSE Frac(0, 1),
                         IF is_correct THEN <<<<"t", "r", "u", "e">>>> ELSE <<>>,
                         IF ~is_correct THEN <<<<"f", "a", "l", "s", "e">>>> ELSE <<>>)

\* AnswerEvaluator._keyword_matches. The word-boundary search between the
\* direct match and the stemming finds the keyword only where it is a
\* substring of the text, which the direct match has already excluded.
_keyword_matches(keyword, text) ==
    \/ Contains(keyword, text)
    \/ /\ EndsWith(keyword, <<"i", "n", "g">>)
       /\ \/ Contains(DropLast(keyword, 3), text)
          \/ Contains(DropLast(keyword, 3) \o <<"e">>, text)
    \/ /\ ~EndsWith(keyword, <<"i", "n", "g">>)
       /\ EndsWith(keyword, <<"e", "d">>)
       /\ \/ Contains(DropLast(keyword, 2), text)
          \/ Contains(DropLast(keyword, 2) \o <<"e">>, text)
    \/ /\ ~EndsWith(keyword, <<"i", "n", "g">>)
       /\ ~EndsWith(keyword, <<"e", "d">>)
       /\ EndsWith(keyword, <<"s">>)
       /\ Contains(DropLast(keyword, 1), text)

\* Mutant of scoring_curve: partial knowledge is not boosted.
scoring_curve_unboosted(match_ratio) ==
    IF ScoreGE(match_ratio, Frac(80, 1)) THEN Frac(100, 1)
    ELSE IF ScoreGE(match_ratio, Frac(50, 1))
    THEN ScoreAdd(Frac(70, 1),
                  ScoreMul(ScoreSub(match_ratio, Frac(50, 1)), Frac(60, 1)))
    ELSE match_ratio

\* The scoring curve of _evaluate_short_answer, before clamping.
scoring_curve(match_ratio) ==
    IF ScoreGE(match_ratio, Frac(80, 1)) THEN Frac(100, 1)
    ELSE IF ScoreGE(match_ratio, Frac(50, 1))
    THEN ScoreAdd(Frac(70, 1),
                  ScoreMul(ScoreSub(match_ratio, Frac(50, 1)), Frac(60, 1)))
    ELSE ScoreMul(match_ratio, Frac(140, 1))

_evaluate_short_answer(question, user_answer) ==
    LET keywords == question.keywords
        matches(keyword) == _keyword_matches(lower(keyword), user_answer)
        misses(keyword) == ~matches(keyword)
        matched_keywords == SelectSeq(keywords, matches)
        missing_keywords == SelectSeq(keywords, misses)
        match_ratio == Frac(100 * Len(matched_keywords), Len(keywords))
        score == ScoreMin(Frac(100, 1),
                          ScoreMax(Frac(0, 1), scoring_curve(match_ratio)))
    IN  IF Len(keywords) = 0
        THEN IF Len(user_answer) > 20
             THEN EvaluationResult(question.id, TRUE, Frac(70, 1), <<>>, <<>>)
             ELSE EvaluationResult(question.id, FALSE, Frac(30, 1), <<>>, <<>>)
        ELSE EvaluationResult(question.id, ScoreGE(score, Frac(70, 1)), score,
                              matched_keywords, missing_keywords)

\* The dispatch of evaluate_answer on the question type.
evaluate_by_type(question, user_answer_lower) ==
    IF question.question_type = "multiple_choice"
    THEN _evaluate_multiple_choice(question, user_answer_lower)
    ELSE IF question.question_type = "true_false"
    THEN _evaluate_true_false(question, user_answer_lower)
    ELSE _evaluate_short_answer(question, user_answer_lower)

\* Mutant of evaluate_answer: an empty answer is graded like any other.
evaluate_answer_ungated(question, user_answer) ==
    evaluate_by_type(question, strip(lower(user_answer)))

evaluate_answer(question, user_answer) ==
    IF Len(user_answer) = 0 \/ Len(strip(user_answer)) = 0
    THEN EvaluationResult(question.id, FALSE, Frac(0, 1), <<>>,
                          question.keywords)
    ELSE evaluate_by_type(question, strip(lower(user_answer)))

\* A Question, as far as grading reads it.
Question(id, question_type, correct_answer, keywords, objective) ==
    [id |-> id,
     question_type |-> question_type,
     correct_answer |-> correct_answer,
     keywords |-> keywords,
     objective |-> objective]

\* Keyword lists of the short-answer questions graded: none, four, fourteen,
\* and one whose keywords match through their stems.
FourKeywords == <<<<"a">>, <<"b">>, <<"c">>, <<"d">>>>
FourteenKeywords ==
    <<<<"a">>, <<"b">>, <<"c">>, <<"d">>, <<"e">>,
      <<"f">>, <<"g">>, <<"h">>, <<"i">>, <<"j">>,
      <<"k">>, <<"l">>, <<"m">>, <<"n">>>>
StemKeywords ==
    <<<<"t", "e", "s", "t", "i", "n", "g">>,
      <<"g", "r", "a", "d", "e", "d">>,
      <<"t", "o", "p", "i", "c", "s">>>>

\* The questions graded.
Questions ==
    {Question("q1", "multiple_choice", <<"B">>, <<>>, "o1"),
     Question("q1", "multiple_choice", <<" ", "b", ")", " ", "O", "p", "t", "i", "o", "n", " ", "t", "e", "x", "t", " ">>, <<>>, "o1"),
     Question("q1", "multiple_choice", <<>>, <<>>, "o1"),
     Question("q1", "true_false", <<"T", "r", "u", "e">>, <<>>, "o1"),
     Question("q1", "true_false", <<"F", "a", "l", "s", "e">>, <<>>, "o1"),
     Question("q1", "true_false", <<>>, <<>>, "o1"),
     Question("q1", "short_answer", <<>>, <<>>, "o1"),
     Question("q1", "short_answer", <<>>, FourKeywords, "o1"),
     Question("q1", "short_answer", <<>>, FourteenKeywords, "o1"),
     Question("q1", "short_answer", <<>>, StemKeywords, "o1")}

\* The answers a learner gives.
UserAnswers ==
    {<<>>,
     <<" ">>,
     <<" ", "\n", "\t">>,
     <<"t", "r", "u", "e">>,
     <<"t">>,
     <<"y", "e", "s">>,
     <<"y">>,
     <<"1">>,
     <<"c", "o", "r", "r", "e", "c", "t">>,
     <<"f", "a", "l", "s", "e">>,
     <<"f">>,
     <<"n", "o">>,
     <<"n">>,
     <<"0">>,
     <<"i", "n", "c", "o", "r", "r", "e", "c", "t">>,
     <<"w", "r", "o", "n", "g">>,
     <<"T">>,
     <<"Y", "e", "s">>,
     <<" ", "n", "o", " ">>,
     <<"b">>,
     <<"B", ")", " ", "s", "o", "m", "e", " ", "o", "t", "h", "e", "r", " ", "t", "e", "x", "t">>,
     <<"B", " ">>,
     <<"A">>,
     <<"x">>,
     <<"a", "b">>,
     <<"a", "b", "c">>,
     <<"a", "b", "c", "d">>,
     <<"a", "b", "c", "d", "e">>,
     <<"a", "b", "c", "d", "e", "f">>,
     <<"a", "b", "c", "d", "e", "f", "g">>,
     <<"a", "b", "c", "d", "e", "f", "g", "h", "i", "j", "k", "l", "m", "n">>,
     <<"x", "x", "x", "x", "x", "x", "x", "x", "x", "x", "x", "x", "x", "x", "x", "x", "x", "x", "x", "x">>,
     <<"x", "x", "x", "x", "x", "x", "x", "x", "x", "x", "x", "x", "x", "x", "x", "x", "x", "x", "x", "x", "x">>,
     <<"t", "e", "s", "t", " ", "g", "r", "a", "d", "e", " ", "t", "o", "p", "i", "c">>}

\* ------------------------------------------------------- quiz scorer
\* Per-question scores evaluate_answer returns in the quizzes the workflow
\* grades; question i of such a quiz has objective objective_of(i).
AnswerScores == {Frac(40, 1), Frac(100, 1)}
QuizScores == SeqsUpTo(AnswerScores, MaxQuestions)

\* total_score after the loop over the questions.
RECURSIVE SumSeq(_)
SumSeq(s) == IF s = <<>> THEN Frac(0, 1) ELSE ScoreAdd(Head(s), SumSeq(Tail(s)))

\* Mutant of avg_score: the total is not divided by the number of questions.
avg_score_undivided(scores) == SumSeq(scores)

\* avg_score of AnswerEvaluator.evaluate_quiz.
avg_score(scores) ==
    IF scores # <<>> THEN ScoreDiv(SumSeq(scores), Len(scores)) ELSE Frac(0, 1)

\* Mutant of quiz_passed: a score equal to the threshold does not pass.
quiz_passed_strict(avg) == ScoreGT(avg, pass_threshold)

\* passed of AnswerEvaluator.evaluate_quiz.
quiz_passed(avg) == ScoreGE(avg, pass_threshold)

\* Mutant of is_weak: a score equal to the cutoff counts as weak.
is_weak_inclusive(score, objective) ==
    ScoreGE(Frac(WeakCutoffPct, 1), score) /\ objective # ""

\* result.score < 0.5 and question.objective
is_weak(score, objective) ==
    ~ScoreGE(score, Frac(WeakCutoffPct, 1)) /\ objective # ""

\* set(weak_concepts) for questions with the given scores and objectives.
weak_concepts_set(scores, objectives) ==
    {objectives[k] : k \in {i \in 1..Len(scores) : is_weak(scores[i], objectives[i])}}

\* The objectives evaluate_quiz collects as weak, as a set.
weak_objectives(scores) ==
    weak_concepts_set(scores, [i \in 1..Len(scores) |-> objective_of(i)])

\* list(set(...)): the listings of a set, in any order.
Listings(S) == {s \in SeqsUpTo(S, Cardinality(S)) : Range(s) = S /\ NoDup(s)}

\* The QuizResult AnswerEvaluator.evaluate_quiz builds (weak list order given).
QuizResult(scores, weak) ==
    [checkpoint_id |-> "",
     scores |-> scores,
     total_score |-> avg_score(scores),
     passed |-> quiz_passed(avg_score(scores)),
     attempt_number |-> 1,
     weak_concepts |-> weak]

\* user_answers.get(question.id, "")
answer_of(user_answers, id) ==
    IF id \in DOMAIN user_answers THEN user_answers[id] ELSE <<>>

\* result.score of every question, in quiz order.
graded_scores(questions, user_answers) ==
    [i \in 1..Len(questions) |->
        evaluate_answer(questions[i], answer_of(user_answers, questions[i].id)).score]

\* AnswerEvaluator.evaluate_answer, called on its own.
AnswerEvaluator_evaluate_answer(question, user_answer) ==
    /\ Return("evaluate_answer",
              [question |-> question, user_answer |-> user_answer],
              evaluate_answer(question, user_answer))
    /\ UNCHANGED tracker

\* AnswerEvaluator.evaluate_quiz, called on its own.
AnswerEvaluator_evaluate_quiz(questions, user_answers) ==
    LET scores == graded_scores(questions, user_answers)
        objectives == [i \in 1..Len(questions) |-> questions[i].objective]
    IN  \E weak \in Listings(weak_concepts_set(scores, objectives)) :
            /\ Return("AnswerEvaluator.evaluate_quiz",
                      [questions |-> questions, user_answers |-> user_answers],
                      QuizResult(scores, weak))
            /\ UNCHANGED tracker

\* The quizzes graded: up to three questions with the ids of QuizIds, each a
\* multiple-choice question or a short-answer question with fourteen
\* keywords, with an objective or without one.
QuizIds == <<"q1", "q2", "q3">>

QuizTemplates ==
    {Question("", "multiple_choice", <<"B">>, <<>>, "o1"),
     Question("", "short_answer", <<>>, FourteenKeywords, "o2"),
     Question("", "short_answer", <<>>, FourteenKeywords, "")}

Quizzes ==
    {[i \in 1..Len(t) |-> [t[i] EXCEPT !.id = QuizIds[i]]] :
        t \in SeqsUpTo(QuizTemplates, Len(QuizIds))}

QuizAnswers ==
    {<<"b">>,
     <<"a", "b", "c", "d">>,
     <<"a", "b", "c", "d", "e">>,
     <<"a", "b", "c", "d", "e", "f">>}

\* The user_answers dicts for a quiz: any of its questions may be unanswered.
AnswerSheets(questions) ==
    UNION {[D -> QuizAnswers] :
              D \in SUBSET {questions[i].id : i \in 1..Len(questions)}}

\* ----------------------------------------------------------- workflow
\* LearningWorkflow.evaluate_quiz: grade, then record in the tracker.
evaluate_quiz(scores, checkpoint_id, attempt_number) ==
    \E weak \in Listings(weak_objectives(scores)) :
        LET result == [QuizResult(scores, weak) EXCEPT
                           !.checkpoint_id = checkpoint_id,
                           !.attempt_number = attempt_number]
        IN  IF ~get_progress_found(checkpoint_id)
            THEN Raise("evaluate_quiz", checkpoint_id)
            ELSE /\ RecordEffect(checkpoint_id, result.total_score,
                                 result.passed, result.weak_concepts)
                 /\ Return("evaluate_quiz", checkpoint_id, result)

\* LearningWorkflow.teach_weak_concepts; it returns the fixed sentence when
\* there is nothing to explain, the formatted teaching session otherwise.
teach_weak_concepts(weak_concepts, checkpoint_id) ==
    LET arg == [weak_concepts |-> weak_concepts,
                checkpoint_id |-> checkpoint_id]
    IN  IF weak_concepts = <<>>
        THEN /\ Return("teach_weak_concepts", arg,
                    "Great job! No concepts need additional explanation.")
             /\ UNCHANGED tracker
        ELSE IF ~get_progress_found(checkpoint_id)
        THEN Raise("teach_weak_concepts", arg)
        ELSE /\ CompleteTeachingEffect(checkpoint_id)
             /\ Return("teach_weak_concepts", arg, "teaching_content")

\* The embedding of a text is a function of the text, so a vector is
\* modelled by the content it embeds; a query is modelled by the inner
\* product it has with each content.

\* dict[key] = value
assigned(dict, key, value) ==
    [x \in DOMAIN dict \cup {key} |-> IF x = key THEN value ELSE dict[x]]

\* The fields of the store that its methods assign.
VectorStore_self ==
    [documents |-> documents, id_to_index |-> id_to_index,
     index_to_id |-> index_to_id, index |-> index]

\* self.documents[doc_id] = vector_doc: a known id keeps its place.
stored(store, doc) ==
    IF \E i \in 1..Len(store) : store[i].id = doc.id
    THEN [i \in 1..Len(store) |->
             IF store[i].id = doc.id THEN doc ELSE store[i]]
    ELSE Append(store, doc)

\* doc.get('id', f"doc_{len(self.documents)}"); the id "doc_n" is
\* modelled as <<"doc", n>>.
doc_id_of(self, doc) ==
    IF "id" \in DOMAIN doc THEN doc.id ELSE <<"doc", Len(self.documents)>>

\* The body of the loop of add_documents for a document with content.
document_added(self, doc) ==
    LET doc_id == doc_id_of(self, doc)
        vector_doc == [id |-> doc_id, content |-> doc.content,
                       metadata |-> doc.metadata]
        current_index == Cardinality(DOMAIN self.id_to_index)
    IN  [documents |-> stored(self.documents, vector_doc),
         id_to_index |-> assigned(self.id_to_index, doc_id, current_index),
         index_to_id |-> assigned(self.index_to_id, current_index, doc_id),
         index |-> IF FAISS_AVAILABLE THEN Append(self.index, doc.content)
                   ELSE self.index]

\* VectorStore.add_documents: documents without content are skipped; the
\* store after the call and the ids it returns.
RECURSIVE add_documents(_, _, _)
add_documents(self, docs, added_ids) ==
    IF docs = <<>> THEN [self |-> self, added_ids |-> added_ids]
    ELSE IF Head(docs).content = <<>>
    THEN add_documents(self, Tail(docs), added_ids)
    ELSE add_documents(document_added(self, Head(docs)), Tail(docs),
                       Append(added_ids, doc_id_of(self, Head(docs))))

\* VectorStore.clear
cleared(self) ==
    [documents |-> <<>>, id_to_index |-> EmptyDict,
     index_to_id |-> EmptyDict, index |-> <<>>]

\* The store's fields are assigned from self.
VectorStore_becomes(self) ==
    /\ documents' = self.documents
    /\ id_to_index' = self.id_to_index
    /\ index_to_id' = self.index_to_id
    /\ index' = self.index
    /\ UNCHANGED FAISS_AVAILABLE

\* all(doc.metadata.get(k) == v for k, v in filter_metadata.items()); a
\* filter is the set of its <<key, value>> items.
metadata_matches(doc, filter_metadata) ==
    \A item \in filter_metadata :
        /\ item[1] \in DOMAIN doc.metadata
        /\ doc.metadata[item[1]] = item[2]

\* self.documents[doc_id]
document(doc_id) ==
    documents[CHOOSE i \in 1..Len(documents) : documents[i].id = doc_id]

\* self.index.search(query_embedding, n): the positions, counted from 0, of
\* the n vectors nearest to the query, nearest first; which of two equally
\* near vectors comes first is the library's choice.
faiss_search(sim, n) ==
    LET positions == 0..(Len(index) - 1)
        found == IF n < Len(index) THEN n ELSE Len(index)
        score(idx) == sim[index[idx + 1]]
    IN  {hits \in [1..found -> positions] :
            /\ \A i, j \in 1..found : hits[i] = hits[j] => i = j
            /\ \A i \in 1..(found - 1) : score(hits[i]) >= score(hits[i + 1])
            /\ \A idx \in positions \ Range(hits) :
                   \A i \in 1..found : score(hits[i]) >= score(idx)}

\* The loop of search over the hits of the index.
RECURSIVE faiss_results(_, _, _, _, _)
faiss_results(hits, k, filter_metadata, sim, results) ==
    IF hits = <<>> THEN results
    ELSE LET idx == Head(hits)
             known == /\ idx \in DOMAIN index_to_id
                      /\ \E i \in 1..Len(documents) :
                             documents[i].id = index_to_id[idx]
         IN  IF ~known
             THEN faiss_results(Tail(hits), k, filter_metadata, sim, results)
             ELSE LET doc == document(index_to_id[idx])
                      appended == Append(results,
                                         [doc |-> doc,
                                          score |-> sim[index[idx + 1]]])
                  IN  IF ~metadata_matches(doc, filter_metadata)
                      THEN faiss_results(Tail(hits), k, filter_metadata, sim,
                                         results)
                      ELSE IF Len(appended) >= k THEN appended
                      ELSE faiss_results(Tail(hits), k, filter_metadata, sim,
                                         appended)

\* Mutant of sorted_by_score: the results are cut to k without the sort.
sorted_by_score_unsorted(results) == results

\* results.sort(key=lambda x: x[1], reverse=True): results of equal score
\* keep their order.
RECURSIVE sorted_by_score(_)
sorted_by_score(results) ==
    IF results = <<>> THEN <<>>
    ELSE LET first == Head(results)
             rest == sorted_by_score(Tail(results))
             above == SelectSeq(rest, LAMBDA r : r.score > first.score)
             below == SelectSeq(rest, LAMBDA r : r.score <= first.score)
         IN  above \o <<first>> \o below

\* The scan of search over all documents, and results[:k].
brute_force_results(k, filter_metadata, sim) ==
    LET matching == SelectSeq(documents,
                        LAMBDA doc : metadata_matches(doc, filter_metadata))
        results == [i \in 1..Len(matching) |->
                       [doc |-> matching[i],
                        score |-> sim[matching[i].content]]]
        sorted == sorted_by_score(results)
    IN  SubSeq(sorted, 1, IF k < Len(sorted) THEN k ELSE Len(sorted))

\* What VectorStore.search can return for a query of similarities sim.
search(k, filter_metadata, sim) ==
    IF documents = <<>> THEN {<<>>}
    ELSE IF FAISS_AVAILABLE
    THEN LET n == IF k * 2 < Len(documents) THEN k * 2 ELSE Len(documents)
         IN  {faiss_results(hits, k, filter_metadata, sim, <<>>) :
                 hits \in faiss_search(sim, n)}
    ELSE {brute_force_results(k, filter_metadata, sim)}

\* VectorStore.add_documents
VectorStore_add_documents(docs) ==
    LET added == add_documents(VectorStore_self, docs, <<>>)
    IN  /\ VectorStore_becomes(added.self)
        /\ Return("add_documents", docs, added.added_ids)
        /\ UNCHANGED tracker

\* VectorStore.clear
VectorStore_clear ==
    /\ VectorStore_becomes(cleared(VectorStore_self))
    /\ Return("clear", None, None)
    /\ UNCHANGED tracker

\* VectorStore.search
VectorStore_search(k, filter_metadata, sim) ==
    \E results \in search(k, filter_metadata, sim) :
        /\ Return("search",
                  [k |-> k, filter_metadata |-> filter_metadata, sim |-> sim],
                  results)
        /\ UNCHANGED tracker
        /\ UNCHANGED vector_store

\* ---------------------------------------------------- study material
\* A text is the sequence of the paragraphs that text.split('\n\n') yields;
\* of a paragraph the code reads its length and whether anything but
\* whitespace is in it.
Paragraph(len, blank) == [len |-> len, blank |-> blank]

\* The empty paragraph in front of a text that starts with a blank line.
EmptyParagraph == Paragraph(0, TRUE)

\* CHUNK_SIZE, and the length of notes below which the web is searched.
chunk_size == 500
SearchBelow == 500

RECURSIVE SumLen(_)
SumLen(paragraphs) ==
    IF paragraphs = <<>> THEN 0
    ELSE Head(paragraphs).len + SumLen(Tail(paragraphs))

\* len(text) of the paragraphs joined by blank lines.
text_len(paragraphs) ==
    IF paragraphs = <<>> THEN 0
    ELSE SumLen(paragraphs) + 2 * (Len(paragraphs) - 1)

\* len(current_chunk): every paragraph was added with a blank line after it.
chunk_len(chunk) == SumLen(chunk) + 2 * Len(chunk)

\* Mutant of chunks_of: the chunk being filled when the paragraphs end is
\* not appended.
RECURSIVE chunks_of_unflushed(_, _, _)
chunks_of_unflushed(paragraphs, current_chunk, chunks) ==
    IF paragraphs = <<>> THEN chunks
    ELSE IF chunk_len(current_chunk) + Head(paragraphs).len < chunk_size
    THEN chunks_of_unflushed(Tail(paragraphs),
                             Append(current_chunk, Head(paragraphs)), chunks)
    ELSE chunks_of_unflushed(Tail(paragraphs), <<Head(paragraphs)>>,
                             IF current_chunk # <<>>
                             THEN Append(chunks, current_chunk)
                             ELSE chunks)

\* The loop of _store_in_vector_db over the paragraphs, and the append
\* after it; a chunk is the sequence of its paragraphs.
RECURSIVE chunks_of(_, _, _)
chunks_of(paragraphs, current_chunk, chunks) ==
    IF paragraphs = <<>>
    THEN IF current_chunk # <<>> THEN Append(chunks, current_chunk) ELSE chunks
    ELSE IF chunk_len(current_chunk) + Head(paragraphs).len < chunk_size
    THEN chunks_of(Tail(paragraphs),
                   Append(current_chunk, Head(paragraphs)), chunks)
    ELSE chunks_of(Tail(paragraphs), <<Head(paragraphs)>>,
                   IF current_chunk # <<>>
                   THEN Append(chunks, current_chunk)
                   ELSE chunks)

\* current_chunk.strip()
RECURSIVE stripped_chunk(_)
stripped_chunk(chunk) ==
    IF chunk # <<>> /\ Head(chunk).blank THEN stripped_chunk(Tail(chunk))
    ELSE IF chunk # <<>> /\ chunk[Len(chunk)].blank
    THEN stripped_chunk(SubSeq(chunk, 1, Len(chunk) - 1))
    ELSE chunk

\* The documents _store_in_vector_db builds; chunk_index counts from 0.
chunk_documents(checkpoint, chunks) ==
    [i \in 1..Len(chunks) |->
        [id |-> <<checkpoint.id, "chunk", i - 1>>,
         content |-> stripped_chunk(chunks[i]),
         metadata |-> [checkpoint_id |-> checkpoint.id,
                       chunk_index |-> i - 1]]]

\* LearningWorkflow._store_in_vector_db: the store after the call.
store_in_vector_db(self, checkpoint, content) ==
    add_documents(cleared(self),
                  chunk_documents(checkpoint, chunks_of(content, <<>>, <<>>)),
                  <<>>).self

\* LearningWorkflow._store_in_vector_db
LearningWorkflow_store_in_vector_db(checkpoint, content) ==
    /\ VectorStore_becomes(
           store_in_vector_db(VectorStore_self, checkpoint, content))
    /\ Return("_store_in_vector_db",
              [checkpoint |-> checkpoint, content |-> content], None)
    /\ UNCHANGED tracker

\* A part appended to content_parts after the notes starts with a blank
\* line: joined behind another part it is a paragraph one character longer,
\* at the head of the text it leaves an empty paragraph in front of it.
part_paragraphs(part, is_first) ==
    IF is_first THEN <<EmptyParagraph>> \o part
    ELSE <<[part[1] EXCEPT !.len = @ + 1]>> \o Tail(part)

\* "\n".join(content_parts), as paragraphs; the notes can only be first.
RECURSIVE joined(_, _, _)
joined(parts, is_first, notes_first) ==
    IF parts = <<>> THEN <<>>
    ELSE (IF is_first /\ notes_first THEN Head(parts)
          ELSE part_paragraphs(Head(parts), is_first))
         \o joined(Tail(parts), FALSE, notes_first)

\* content_parts before the web search: the notes, then the user's notes.
noted_parts(checkpoint, user_notes) ==
    (IF checkpoint.notes # <<>> THEN <<checkpoint.notes>> ELSE <<>>)
    \o (IF user_notes # <<>> THEN <<user_notes>> ELSE <<>>)

\* The web is searched when there are no notes of either kind or the first
\* part is short.
web_searched(checkpoint, user_notes) ==
    LET content_parts == noted_parts(checkpoint, user_notes)
    IN  content_parts = <<>> \/ text_len(content_parts[1]) < SearchBelow

\* study_content of collect_study_material; search_results are the parts
\* the web search adds, or "error" when it raises.
study_content(checkpoint, user_notes, search_results) ==
    LET content_parts ==
            noted_parts(checkpoint, user_notes)
            \o (IF web_searched(checkpoint, user_notes)
                   /\ search_results # "error"
                THEN search_results ELSE <<>>)
    IN  joined(content_parts, TRUE, checkpoint.notes # <<>>)

\* LearningWorkflow.collect_study_material
collect_study_material(checkpoint, user_notes, search_results) ==
    LET content == study_content(checkpoint, user_notes, search_results)
    IN  /\ VectorStore_becomes(
               IF content # <<>>
               THEN store_in_vector_db(VectorStore_self, checkpoint, content)
               ELSE VectorStore_self)
        /\ Return("collect_study_material",
                  [checkpoint |-> checkpoint, user_notes |-> user_notes],
                  content)
        /\ UNCHANGED tracker

\* How many documents get_context_for_topic asks the search for.
ContextK == 5

\* VectorStore.get_context_for_topic: the k documents nearest to the query;
\* which ones are nearest is the embedding's choice.
contexts_for_topic ==
    IF Len(documents) <= ContextK THEN {Range(documents)}
    ELSE {D \in SUBSET Range(documents) : Cardinality(D) = ContextK}

\* LearningWorkflow.generate_quiz, up to the context handed to the generator.
generate_quiz(checkpoint) ==
    \E context \in contexts_for_topic :
        /\ Return("generate_quiz", [checkpoint |-> checkpoint],
                  {doc.metadata.checkpoint_id : doc \in context})
        /\ UNCHANGED tracker
        /\ UNCHANGED vector_store

\* The study material a checkpoint comes with: no notes, short notes, notes
\* in two paragraphs; the user's notes; what the web search finds.
ShortParagraph == Paragraph(100, FALSE)
LongParagraph == Paragraph(600, FALSE)

CheckpointDefinitions ==
    {[id |-> cp_id, notes |-> notes] :
        cp_id \in Ids,
        notes \in {<<>>, <<ShortParagraph>>, <<LongParagraph>>,
                   <<ShortParagraph, ShortParagraph>>,
                   <<LongParagraph, ShortParagraph>>}}

UserNotes == {<<>>, <<ShortParagraph>>, <<LongParagraph>>}

SearchResults ==
    {"error", <<>>, << <<ShortParagraph>> >>,
     << <<ShortParagraph>>, <<LongParagraph>> >>}

\* ------------------------------------------------------ learner's pages
\* The pages of streamlit_app.py: one action for every button that calls the
\* workflow or the tracker.  A button exists only while the page draws it,
\* so the conditions under which it is drawn are the guard of its action.
\* Of the questions of a quiz the pages' flow reads how many there are.

\* get_all_checkpoints(): the ids of the course, in order.
AllCheckpoints == <<"a", "b">>

\* The checkpoints of the course come with notes longer than the length
\* below which the web is searched.
checkpoint_definition(cp_id) ==
    [id |-> cp_id, notes |-> <<LongParagraph, ShortParagraph>>]

\* The checkpoint the checkpoint page is drawn for.
page_checkpoint == session_state.current_checkpoint_id

\* main draws the checkpoint page, and the page finds its checkpoint.
checkpoint_page_drawn ==
    /\ session_state.session_started
    /\ page_checkpoint # None

\* render_quiz_tab gets past its checks: the checkpoint is known and not
\* passed, the study material is loaded and an attempt is left.
quiz_tab_open ==
    /\ checkpoint_page_drawn
    /\ get_progress_found(page_checkpoint)
    /\ checkpoints[page_checkpoint].status # PASSED
    /\ checkpoints[page_checkpoint].study_material_loaded
    /\ can_retry(checkpoints[page_checkpoint])

\* render_results_tab has a result to draw.
results_tab_open ==
    /\ checkpoint_page_drawn
    /\ session_state.quiz_result # <<>>

\* "Start Learning Journey" on the home page.
start_learning_journey ==
    /\ StartSessionEffect(AllCheckpoints)
    /\ session_state' = [session_state EXCEPT
           !.session_started = TRUE,
           !.current_checkpoint_id = AllCheckpoints[1]]
    /\ Return("start_learning_journey", None, None)
    /\ UNCHANGED vector_store

\* A topic button of the sidebar, after the session was started.
sidebar_topic(cp_id) ==
    /\ session_state.session_started
    /\ session_state' = [session_state EXCEPT
           !.current_checkpoint_id = cp_id,
           !.quiz_submitted = FALSE,
           !.quiz_result = <<>>]
    /\ Return("sidebar_topic", cp_id, None)
    /\ UNCHANGED tracker
    /\ UNCHANGED vector_store

\* "Load Study Material" on the study tab: the material is collected and
\* the study is marked complete.
load_study_material(user_notes) ==
    LET checkpoint == checkpoint_definition(page_checkpoint)
        content == study_content(checkpoint, user_notes, <<>>)
    IN  /\ checkpoint_page_drawn
        /\ get_progress_found(page_checkpoint)
        /\ VectorStore_becomes(
               IF content # <<>>
               THEN store_in_vector_db(VectorStore_self, checkpoint, content)
               ELSE VectorStore_self)
        /\ StudyCompleteEffect(page_checkpoint)
        /\ Return("load_study_material", page_checkpoint, None)
        /\ UNCHANGED session_state

\* "Start Quiz" on the quiz tab: num_questions questions are generated, the
\* tracker starts the quiz, and the attempt number is read from the
\* progress object the tracker has just counted the attempt on.
start_quiz_button(num_questions) ==
    /\ quiz_tab_open
    /\ session_state.questions = 0 \/ session_state.quiz_submitted
    /\ StartQuizEffect(page_checkpoint)
    /\ session_state' = [session_state EXCEPT
           !.questions = num_questions,
           !.quiz_submitted = FALSE,
           !.quiz_result = <<>>,
           !.attempt_number = checkpoints'[page_checkpoint].attempt_count + 1]
    /\ Return("start_quiz_button", page_checkpoint, None)
    /\ UNCHANGED vector_store

\* "Submit Final Results" under the questions: the workflow grades the quiz
\* and records it; ret is that of the workflow's evaluate_quiz.
submit_final_results(scores) ==
    /\ quiz_tab_open
    /\ session_state.questions # 0 /\ ~session_state.quiz_submitted
    /\ Len(scores) = session_state.questions
    /\ evaluate_quiz(scores, page_checkpoint, session_state.attempt_number)
    /\ session_state' = [session_state EXCEPT
           !.quiz_result = <<ret'.value>>,
           !.quiz_submitted = TRUE]
    /\ UNCHANGED vector_store

\* "Continue to Next Topic" on the results of a passed quiz.
continue_to_next_topic ==
    /\ results_tab_open
    /\ session_state.quiz_result[1].passed
    /\ move_to_next_checkpoint
    /\ session_state' =
           IF ret'.value # None
           THEN [session_state EXCEPT
                    !.current_checkpoint_id = ret'.value,
                    !.questions = 0,
                    !.quiz_result = <<>>]
           ELSE session_state
    /\ UNCHANGED vector_store

\* "Get Personalized Explanation" on the results of a failed quiz that
\* names weak concepts.
get_personalized_explanation ==
    /\ results_tab_open
    /\ ~session_state.quiz_result[1].passed
    /\ session_state.quiz_result[1].weak_concepts # <<>>
    /\ teach_weak_concepts(session_state.quiz_result[1].weak_concepts,
                           page_checkpoint)
    /\ session_state' = [session_state EXCEPT
           !.feynman_content = (ret'.outcome = "ok")]
    /\ UNCHANGED vector_store

\* "Retake Quiz" under the explanation, while an attempt is left.
retake_quiz ==
    /\ results_tab_open
    /\ ~session_state.quiz_result[1].passed
    /\ session_state.feynman_content
    /\ get_progress_found(page_checkpoint)
    /\ can_retry(checkpoints[page_checkpoint])
    /\ session_state' = [session_state EXCEPT
           !.questions = 0,
           !.quiz_result = <<>>,
           !.feynman_content = FALSE,
           !.quiz_submitted = FALSE]
    /\ Return("retake_quiz", page_checkpoint, None)
    /\ UNCHANGED tracker
    /\ UNCHANGED vector_store

\* "Next Topic" on the quiz tab when no attempt is left: the page moves to
\* the checkpoint after this one in the course, around the end.
next_topic_button ==
    LET current_idx_ == IndexOf(AllCheckpoints, page_checkpoint)
        next_idx == (current_idx_ % Len(AllCheckpoints)) + 1
    IN  /\ checkpoint_page_drawn
        /\ get_progress_found(page_checkpoint)
        /\ checkpoints[page_checkpoint].status # PASSED
        /\ checkpoints[page_checkpoint].study_material_loaded
        /\ ~can_retry(checkpoints[page_checkpoint])
        /\ session_state' = [session_state EXCEPT
               !.current_checkpoint_id = AllCheckpoints[next_idx],
               !.quiz_submitted = FALSE,
               !.quiz_result = <<>>]
        /\ Return("next_topic_button", page_checkpoint, None)
        /\ UNCHANGED tracker
        /\ UNCHANGED vector_store

\* The contents handed to _store_in_vector_db: texts of up to MaxParagraphs
\* paragraphs, empty ones and ones at and around the lengths where a chunk
\* is full; the text is not the empty string.
ChunkedContents ==
    LET paragraphs == {EmptyParagraph, Paragraph(248, FALSE),
                       Paragraph(249, FALSE), Paragraph(499, FALSE),
                       Paragraph(500, FALSE), LongParagraph}
    IN  {content \in SeqsUpTo(paragraphs, MaxParagraphs) :
            text_len(content) > 0}

\* The documents handed to add_documents: with an id or without, with
\* content or without, of either checkpoint; an id given by the caller can
\* be one the store assigns by itself.
InputDocuments ==
    LET contents == {<<>>, <<ShortParagraph>>, <<LongParagraph>>}
    IN  {[content |-> content, metadata |-> [checkpoint_id |-> cp_id]] :
            content \in contents, cp_id \in Ids}
        \cup {[id |-> <<"doc", 1>>, content |-> content,
               metadata |-> [checkpoint_id |-> cp_id]] :
                  content \in contents, cp_id \in Ids}

\* The searches: one result or two, no filter or the documents of one
\* checkpoint, and how near the query is to each content.
Searches ==
    [k : {1, 2},
     filter_metadata : {{}} \cup {{<<"checkpoint_id", cp_id>>} : cp_id \in Ids},
     sim : [{<<ShortParagraph>>, <<LongParagraph>>} -> {10, 90}]]

\* -------------------------------------------------------- specification
\* The bounds of the exploration: the unbounded lists and counters of the
\* tracker are followed up to the lengths and values named at the top.
OrderHasRoom(topics) == Len(checkpoints_order) + Len(topics) <= MaxOrderLen

AttemptsBelowCap(cp_id) ==
    cp_id \in DOMAIN checkpoints =>
        checkpoints[cp_id].attempt_count < MaxAttemptCount

\* The public methods of the tracker, called in any order with any id.
Next ==
    /\ \/ \E topics \in TopicLists : OrderHasRoom(topics) /\ start_session(topics)
       \/ \E cp_id \in Ids : start_checkpoint(cp_id)
       \/ \E cp_id \in Ids : mark_study_complete(cp_id)
       \/ \E cp_id \in Ids : AttemptsBelowCap(cp_id) /\ start_quiz(cp_id)
       \/ \E cp_id \in Ids, r \in RecordInputs :
             /\ HistoryLen < MaxRecords
             /\ record_quiz_result(cp_id, r.score, r.passed, r.weak_concepts)
       \/ \E cp_id \in Ids : complete_teaching(cp_id)
       \/ move_to_next_checkpoint
       \/ \E cp_id \in Ids : can_proceed_to_next(cp_id)
    /\ UNCHANGED vector_store
    /\ UNCHANGED session_state

Spec == Init /\ [][Next]_vars

\* attempt_number a caller passes to the workflow's evaluate_quiz.
AttemptNumbers == {1, 2}

\* The calls that lead to a graded quiz: a session is started, quizzes are
\* started and graded through the workflow, the session moves on.
NextWorkflow ==
    /\ \/ \E topics \in TopicLists : OrderHasRoom(topics) /\ start_session(topics)
       \/ \E cp_id \in Ids : AttemptsBelowCap(cp_id) /\ start_quiz(cp_id)
       \/ \E cp_id \in Ids, scores \in QuizScores, n \in AttemptNumbers :
             /\ HistoryLen < MaxGraded
             /\ evaluate_quiz(scores, cp_id, n)
       \/ \E cp_id \in Ids, weak_concepts \in {<<>>, <<"o1">>} :
             teach_weak_concepts(weak_concepts, cp_id)
       \/ move_to_next_checkpoint
    /\ UNCHANGED vector_store
    /\ UNCHANGED session_state

SpecWorkflow == Init /\ [][NextWorkflow]_vars

\* The evaluator keeps no state between calls: each behaviour makes one call
\* on it, with any question and answer, or any quiz and answer sheet.
NextEvaluator ==
    /\ \/ \E question \in Questions, user_answer \in UserAnswers :
             /\ ret.op = "init"
             /\ AnswerEvaluator_evaluate_answer(question, user_answer)
       \/ \E questions \in Quizzes :
             \E user_answers \in AnswerSheets(questions) :
                 /\ ret.op = "init"
                 /\ AnswerEvaluator_evaluate_quiz(questions, user_answers)
    /\ UNCHANGED vector_store
    /\ UNCHANGED session_state

SpecEvaluator == Init /\ [][NextEvaluator]_vars

\* The study page and the quiz page: material is collected for a checkpoint,
\* a quiz is generated for one.
NextMaterial ==
    /\ \/ \E checkpoint \in CheckpointDefinitions, user_notes \in UserNotes,
             search_results \in SearchResults :
             collect_study_material(checkpoint, user_notes, search_results)
       \/ \E checkpoint \in CheckpointDefinitions : generate_quiz(checkpoint)
    /\ UNCHANGED session_state

SpecMaterial == Init /\ [][NextMaterial]_vars

\* Study content is chunked and stored for a checkpoint.  The call clears
\* the store before it adds the chunks, so what it leaves does not depend on
\* the calls before it: each behaviour makes one call.
NextChunker ==
    /\ \E cp_id \in Ids, content \in ChunkedContents :
           /\ ret.op = "init"
           /\ LearningWorkflow_store_in_vector_db(
                  [id |-> cp_id, notes |-> <<>>], content)
    /\ UNCHANGED session_state

SpecChunker == Init /\ [][NextChunker]_vars

\* What the learner can click, in any order the pages allow.
NextPages ==
    \/ OrderHasRoom(AllCheckpoints) /\ start_learning_journey
    \/ \E cp_id \in Range(AllCheckpoints) : sidebar_topic(cp_id)
    \/ \E user_notes \in {<<>>, <<ShortParagraph>>} :
          load_study_material(user_notes)
    \/ \E num_questions \in 1..MaxQuestions :
          start_quiz_button(num_questions)
    \/ \E scores \in QuizScores :
          HistoryLen < MaxGraded /\ submit_final_results(scores)
    \/ continue_to_next_topic
    \/ get_personalized_explanation
    \/ retake_quiz
    \/ next_topic_button

SpecPages == Init /\ [][NextPages]_vars

\* The store has room for the documents of one more call.
StoreHasRoom(docs) ==
    /\ Len(documents) + Len(docs) <= MaxStored
    /\ Len(index) + Len(docs) <= MaxStored

\* The vector store on its own, with or without faiss: documents are added,
\* the store is cleared and searched in any order.
NextVectorStore ==
    /\ \/ \E docs \in SeqsUpTo(InputDocuments, 2) :
             StoreHasRoom(docs) /\ VectorStore_add_documents(docs)
       \/ VectorStore_clear
       \/ \E query \in Searches :
             VectorStore_search(query.k, query.filter_metadata, query.sim)
    /\ UNCHANGED session_state

SpecVectorStore == (Init \/ InitFallback) /\ [][NextVectorStore]_vars

\* ===================================================================
\* Properties
\* ===================================================================
Status(c) == checkpoints[c].status

\* The last call was method op and returned normally.
Returned(op) == ret.op = op /\ ret.outcome = "ok"

\* The quiz history of p is exactly k failed attempts, each a start_quiz
\* followed by one record_quiz_result with passed = false: entry i was
\* recorded while attempt_count was i, and attempt_count is now k.
FailedAttemptsOnly(p, k) ==
    /\ Len(p.quiz_results) = k
    /\ p.attempt_count = k
    /\ \A i \in 1..k : p.quiz_results[i].attempt = i /\ ~p.quiz_results[i].passed

\* C1: right after the k-th of k failed quiz attempts on a checkpoint
\* (k >= 1), the status is FAILED and can_retry is false when
\* k = max_attempts, and NEEDS_TEACHING with can_retry true when
\* k < max_attempts.
C1_AttemptLimitGating ==
    \A c \in DOMAIN checkpoints :
        LET p == checkpoints[c]
            k == Len(p.quiz_results)
        IN  (/\ Returned("record_quiz_result")
             /\ ret.arg = c
             /\ k >= 1
             /\ FailedAttemptsOnly(p, k))
            => /\ k = p.max_attempts => p.status = FAILED /\ ~can_retry(p)
               /\ k < p.max_attempts => p.status = NEEDS_TEACHING /\ can_retry(p)

\* Witness of C1: a checkpoint with max_attempts >= 2 has just failed its
\* last allowed attempt and is FAILED.
C1_Witness ==
    \E c \in DOMAIN checkpoints :
        /\ Returned("record_quiz_result")
        /\ ret.arg = c
        /\ checkpoints[c].max_attempts >= 2
        /\ FailedAttemptsOnly(checkpoints[c], checkpoints[c].max_attempts)
        /\ Status(c) = FAILED

\* C2: attempt_count never exceeds max_attempts (a start_quiz with no
\* attempts remaining is rejected or changes nothing).
C2_AttemptCountBounded ==
    \A c \in DOMAIN checkpoints :
        checkpoints[c].attempt_count <= checkpoints[c].max_attempts

\* C3: within one session, a checkpoint whose status is PASSED or FAILED
\* keeps that status whatever tracker method is called next.
C3_TerminalStatuses ==
    [][ret'.op # "start_session" =>
          \A c \in DOMAIN checkpoints :
              Status(c) \in {PASSED, FAILED} =>
                  /\ c \in DOMAIN checkpoints'
                  /\ checkpoints'[c].status = Status(c)]_vars

DocumentedEdges ==
    {<<NOT_STARTED, STUDYING>>, <<STUDYING, IN_PROGRESS>>,
     <<IN_PROGRESS, QUIZ_IN_PROGRESS>>, <<QUIZ_IN_PROGRESS, PASSED>>,
     <<QUIZ_IN_PROGRESS, NEEDS_TEACHING>>, <<QUIZ_IN_PROGRESS, FAILED>>,
     <<NEEDS_TEACHING, IN_PROGRESS>>}

\* C4: every status change a tracker method makes within a session is an
\* edge of the documented state machine.
C4_DocumentedTransitions ==
    [][ret'.op # "start_session" =>
          \A c \in DOMAIN checkpoints :
              \/ checkpoints'[c].status = Status(c)
              \/ <<Status(c), checkpoints'[c].status>> \in DocumentedEdges]_vars

\* C5: right after start_session(topics) the session holds exactly one
\* fresh CheckpointProgress (NOT_STARTED, attempt_count 0) per given topic,
\* in the given order, and current_checkpoint_id is the first topic given.
C5_SessionReplaced ==
    Returned("start_session") =>
        /\ checkpoint_keys = ret.arg
        /\ DOMAIN checkpoints = Range(ret.arg)
        /\ \A c \in DOMAIN checkpoints :
              Status(c) = NOT_STARTED /\ checkpoints[c].attempt_count = 0
        /\ ret.arg # <<>> => current_checkpoint_id = ret.arg[1]

\* Position of the current checkpoint in the active session's order, 0 when
\* there is none.
SessionPosition ==
    IF current_checkpoint_id = None THEN 0
    ELSE IndexOf(checkpoint_keys, current_checkpoint_id)

\* Positions after the current one, in the session's order, not PASSED.
ForwardCandidates ==
    {i \in (SessionPosition + 1)..Len(checkpoint_keys) :
        Status(checkpoint_keys[i]) # PASSED}

\* C6: move_to_next_checkpoint returns and makes current the first
\* checkpoint after the current one, in the session's order, that is not
\* PASSED; when there is none it returns none and leaves the current
\* checkpoint unchanged.
C6_StrictlyForward ==
    [][(ret'.op = "move_to_next_checkpoint" /\ session_active) =>
          IF ForwardCandidates # {}
          THEN LET i == CHOOSE k \in ForwardCandidates :
                            \A j \in ForwardCandidates : k <= j
               IN  /\ ret'.value = checkpoint_keys[i]
                   /\ current_checkpoint_id' = checkpoint_keys[i]
          ELSE /\ ret'.value = None
               /\ current_checkpoint_id' = current_checkpoint_id]_vars

\* C7: completed_checkpoints never holds an id twice, and right after
\* record_quiz_result with passed = true the checkpoint is PASSED, has
\* completed_at stamped and is in completed_checkpoints.
C7_CompletedIdempotent ==
    /\ NoDup(completed_checkpoints)
    /\ (Returned("record_quiz_result") /\ ret.value.passed) =>
          /\ Status(ret.arg) = PASSED
          /\ checkpoints[ret.arg].completed_at
          /\ ret.arg \in Range(completed_checkpoints)

\* Witness of C7: a checkpoint was recorded as passed twice and is listed
\* once.
C7_Witness ==
    /\ Returned("record_quiz_result")
    /\ ret.value.passed
    /\ Len(checkpoints[ret.arg].quiz_results) >= 2
    /\ \A i \in 1..Len(checkpoints[ret.arg].quiz_results) :
          checkpoints[ret.arg].quiz_results[i].passed
    /\ completed_checkpoints = <<ret.arg>>

\* C8: right after LearningWorkflow.evaluate_quiz graded a quiz of a
\* checkpoint, the checkpoint is PASSED if and only if the quiz's
\* total_score is at least pass_threshold.
C8_PassedIffThreshold ==
    Returned("evaluate_quiz") =>
        (Status(ret.arg) = PASSED <=> ScoreGE(ret.value.total_score, pass_threshold))

\* Witness of C8: a quiz whose mean is exactly the threshold was graded and
\* the checkpoint is PASSED.
C8_Witness ==
    /\ Returned("evaluate_quiz")
    /\ ret.value.total_score = pass_threshold
    /\ Status(ret.arg) = PASSED

TrackerMethods ==
    {"start_checkpoint", "mark_study_complete", "record_quiz_result",
     "complete_teaching", "move_to_next_checkpoint", "can_proceed_to_next"}

\* C9: a start_quiz call raises the checkpoint's attempt_count by exactly
\* one and sets QUIZ_IN_PROGRESS, touching no other checkpoint's count; no
\* other tracker method changes any attempt_count; a new session starts
\* every count at 0.  Hence attempt_count is the number of start_quiz calls
\* made on the checkpoint in the session.
C9_CountedAtQuizStart ==
    [][/\ (ret'.op = "start_quiz" /\ ret'.outcome = "ok") =>
              /\ checkpoints'[ret'.arg].attempt_count =
                     checkpoints[ret'.arg].attempt_count + 1
              /\ checkpoints'[ret'.arg].status = QUIZ_IN_PROGRESS
              /\ \A c \in DOMAIN checkpoints \ {ret'.arg} :
                     checkpoints'[c].attempt_count = checkpoints[c].attempt_count
       /\ ret'.op \in TrackerMethods =>
              \A c \in DOMAIN checkpoints :
                  checkpoints'[c].attempt_count = checkpoints[c].attempt_count
       /\ ret'.op = "start_session" =>
              \A c \in DOMAIN checkpoints' : checkpoints'[c].attempt_count = 0]_vars

\* Witness of C9: a second quiz was started after a result was recorded.
C9_Witness ==
    /\ Returned("start_quiz")
    /\ checkpoints[ret.arg].attempt_count = 2
    /\ Len(checkpoints[ret.arg].quiz_results) = 1

LookupMethods ==
    {"start_checkpoint", "mark_study_complete", "start_quiz",
     "record_quiz_result", "complete_teaching", "can_proceed_to_next"}

\* C10: a lookup method called without an active session, or with an id the
\* session does not hold, raises and leaves the whole tracker unchanged.
C10_LookupFailsLoudly ==
    [][(/\ ret'.op \in LookupMethods
        /\ (~session_active \/ ret'.arg \notin DOMAIN checkpoints)) =>
          /\ ret'.outcome = "ValueError"
          /\ UNCHANGED tracker]_vars

\* Witness of C10: a call with an id the active session does not hold has
\* raised, on a tracker that already counts an attempt.
C10_Witness ==
    /\ ret.op \in LookupMethods
    /\ ret.outcome = "ValueError"
    /\ session_active
    /\ ret.arg \notin DOMAIN checkpoints
    /\ \E c \in DOMAIN checkpoints : checkpoints[c].attempt_count >= 1

\* The largest score of a non-empty quiz history.
MaxScore(results) ==
    CHOOSE x \in {results[i].score : i \in 1..Len(results)} :
        \A j \in 1..Len(results) : ScoreGE(x, results[j].score)

\* The score fields of p agree with its quiz history.
ScoresMatchHistory(p) ==
    /\ ScoreGE(p.best_score, p.last_score)
    /\ IF p.quiz_results = <<>>
       THEN p.best_score = Frac(0, 1) /\ p.last_score = Frac(0, 1)
       ELSE /\ p.last_score = p.quiz_results[Len(p.quiz_results)].score
            /\ p.best_score = MaxScore(p.quiz_results)

\* C11: in every state each checkpoint's last_score is the score of its most
\* recent record_quiz_result call and its best_score is the maximum of all
\* scores recorded for it (0 if none), so best_score >= last_score; and
\* within a session no tracker method lowers a best_score.
C11_ScoreFieldsConsistent ==
    /\ [](\A c \in DOMAIN checkpoints : ScoresMatchHistory(checkpoints[c]))
    /\ [][ret'.op # "start_session" =>
            \A c \in DOMAIN checkpoints :
                /\ c \in DOMAIN checkpoints'
                /\ ScoreGE(checkpoints'[c].best_score,
                           checkpoints[c].best_score)]_vars

\* Witness of C11: a second result with a lower score was just recorded, so
\* last_score is below best_score.
C11_Witness ==
    \E c \in DOMAIN checkpoints :
        /\ Returned("record_quiz_result")
        /\ ret.arg = c
        /\ Len(checkpoints[c].quiz_results) = 2
        /\ ScoreGT(checkpoints[c].best_score, checkpoints[c].last_score)

\* C12: a complete_teaching call turns NEEDS_TEACHING into IN_PROGRESS and
\* changes nothing else; for a checkpoint in any other status, or one it
\* does not find, it changes nothing at all. attempt_count, weak_concepts,
\* best_score, last_score, quiz_results and current_checkpoint_id are kept
\* in every case.
C12_TeachingOnlyClearsGate ==
    [][ret'.op = "complete_teaching" =>
          IF get_progress_found(ret'.arg) /\ Status(ret'.arg) = NEEDS_TEACHING
          THEN /\ checkpoints' =
                     [checkpoints EXCEPT ![ret'.arg].status = IN_PROGRESS]
               /\ UNCHANGED <<max_attempts, session_active, checkpoint_keys,
                              current_checkpoint_id, completed_checkpoints,
                              checkpoints_order>>
          ELSE UNCHANGED tracker]_vars

\* Witness of C12: complete_teaching returned for a checkpoint that is
\* IN_PROGRESS and still carries its failed attempt: the count, the weak
\* concept and the history entry.
C12_Witness ==
    /\ Returned("complete_teaching")
    /\ Status(ret.arg) = IN_PROGRESS
    /\ checkpoints[ret.arg].attempt_count = 1
    /\ checkpoints[ret.arg].weak_concepts = <<"o1">>
    /\ Len(checkpoints[ret.arg].quiz_results) = 1
    /\ ~checkpoints[ret.arg].study_material_loaded

\* The last call graded one answer / one quiz.
GradedAnswer == Returned("evaluate_answer")
GradedQuiz == Returned("AnswerEvaluator.evaluate_quiz")

\* C13: evaluate_quiz aggregates by simple mean: total_score is the sum of
\* the per-question scores divided by the number of questions, 0 for an
\* empty quiz; a question with no answer scores 0; passed holds exactly when
\* total_score >= pass_threshold; scores [1.0, 0.4, 0.6] give 2/3 and
\* passed = false.
C13_SimpleMean ==
    GradedQuiz =>
        LET questions == ret.arg.questions
            result == ret.value
        IN  /\ Len(result.scores) = Len(questions)
            /\ Len(questions) = 0 => result.total_score = Frac(0, 1)
            /\ Len(questions) > 0 =>
                   result.total_score =
                       ScoreDiv(SumSeq(result.scores), Len(questions))
            /\ \A i \in 1..Len(questions) :
                   questions[i].id \notin DOMAIN ret.arg.user_answers =>
                       result.scores[i] = Frac(0, 1)
            /\ result.passed <=> ScoreGE(result.total_score, Frac(70, 1))
            /\ result.scores = <<Frac(100, 1), Frac(40, 1), Frac(60, 1)>> =>
                   result.total_score = Frac(200, 3) /\ ~result.passed

\* Witness of C13: a quiz with per-question scores [1.0, 0.4, 0.6] was graded.
C13_Witness ==
    /\ GradedQuiz
    /\ ret.value.scores = <<Frac(100, 1), Frac(40, 1), Frac(60, 1)>>
    /\ ~ret.value.passed

\* C14: the weak_concepts of a QuizResult lists, each once, exactly the
\* objectives of the questions that scored below 0.5 (a question without an
\* objective has none to list): a score of 0.5 or more never contributes,
\* a score below 0.5 always does.
C14_WeakConceptsBelowHalf ==
    GradedQuiz =>
        LET questions == ret.arg.questions
            result == ret.value
            below_half == {i \in 1..Len(questions) :
                              ScoreGT(Frac(50, 1), result.scores[i])}
        IN  /\ NoDup(result.weak_concepts)
            /\ Range(result.weak_concepts) =
                   {questions[i].objective : i \in below_half} \ {""}

\* Witness of C14: a question scoring exactly 0.5 keeps its objective out of
\* weak_concepts while two questions scoring 0 share the one objective
\* listed.
C14_Witness ==
    /\ GradedQuiz
    /\ ret.value.scores = <<Frac(50, 1), Frac(0, 1), Frac(0, 1)>>
    /\ [i \in 1..3 |-> ret.arg.questions[i].objective] = <<"o2", "o1", "o1">>
    /\ ret.value.weak_concepts = <<"o1">>

\* C15: for a short-answer question with n > 0 keywords of which m are
\* matched, the score is 1.0 when m/n >= 0.8, 0.7 + (m/n - 0.5) * 0.6 when
\* 0.5 <= m/n < 0.8 and 1.4 * m/n when m/n < 0.5; it lies in [0, 1];
\* is_correct holds exactly when the score is at least 0.7, which is when
\* m/n >= 0.5; with four keywords 0, 2, 3, 4 matched give 0, 0.7, 0.85, 1.0.
C15_ShortAnswerCurve ==
    (/\ GradedAnswer
     /\ ret.arg.question.question_type = "short_answer"
     /\ Len(ret.arg.question.keywords) > 0)
    => LET n == Len(ret.arg.question.keywords)
           m == Len(ret.value.matched_keywords)
           score == ret.value.score
       IN  /\ m + Len(ret.value.missing_keywords) = n
           /\ 5 * m >= 4 * n => score = Frac(100, 1)
           /\ 2 * m >= n /\ 5 * m < 4 * n => score = Frac(40 * n + 60 * m, n)
           /\ 2 * m < n => score = Frac(140 * m, n)
           /\ ScoreGE(score, Frac(0, 1)) /\ ScoreGE(Frac(100, 1), score)
           /\ ret.value.is_correct <=> ScoreGE(score, Frac(70, 1))
           /\ ret.value.is_correct <=> 2 * m >= n
           /\ n = 4 =>
                  score = CASE m = 0 -> Frac(0, 1)
                            [] m = 1 -> Frac(35, 1)
                            [] m = 2 -> Frac(70, 1)
                            [] m = 3 -> Frac(85, 1)
                            [] m = 4 -> Frac(100, 1)

\* Witness of C15: three of four keywords were matched and the score is 0.85.
C15_Witness ==
    /\ GradedAnswer
    /\ ret.arg.question.question_type = "short_answer"
    /\ Len(ret.arg.question.keywords) = 4
    /\ Len(ret.value.matched_keywords) = 3
    /\ ret.value.score = Frac(85, 1)
    /\ ret.value.is_correct

C17_EmptyAnswerScoresZero ==
    /\ (GradedAnswer /\ Len(strip(ret.arg.user_answer)) = 0) =>
           ret.value.score = Frac(0, 1) /\ ~ret.value.is_correct
    /\ GradedQuiz =>
           \A i \in 1..Len(ret.arg.questions) :
               ret.arg.questions[i].id \notin DOMAIN ret.arg.user_answers =>
                   ret.value.scores[i] = Frac(0, 1)

\* Witness of C17: a whitespace-only answer to a short-answer question
\* without keywords was graded 0.0.
C17_Witness ==
    /\ GradedAnswer
    /\ ret.arg.question.question_type = "short_answer"
    /\ ret.arg.question.keywords = <<>>
    /\ Len(ret.arg.user_answer) = 3
    /\ Len(strip(ret.arg.user_answer)) = 0
    /\ ret.value.score = Frac(0, 1)

\* C18: a multiple_choice answer scores 1.0 exactly when the first character
\* of the lower-cased, trimmed answer equals the first character of the
\* lower-cased, trimmed correct answer, and 0.0 otherwise, whatever follows
\* the first character.
C18_OptionLetterOnly ==
    (GradedAnswer /\ ret.arg.question.question_type = "multiple_choice")
    => LET answer == strip(lower(ret.arg.user_answer))
           correct == strip(lower(ret.arg.question.correct_answer))
       IN  /\ ret.value.score \in {Frac(0, 1), Frac(100, 1)}
           /\ ret.value.score = Frac(100, 1) <=>
                  /\ Len(answer) > 0
                  /\ Len(correct) > 0
                  /\ answer[1] = correct[1]

\* Witness of C18: the answer "B) some other text" to a question whose
\* correct answer is "B" was graded 1.0.
C18_Witness ==
    /\ GradedAnswer
    /\ ret.arg.question.question_type = "multiple_choice"
    /\ ret.arg.question.correct_answer = <<"B">>
    /\ Len(ret.arg.user_answer) > 1
    /\ ret.arg.user_answer[2] = ")"
    /\ ret.value.score = Frac(100, 1)

\* C19: grading a non-empty answer to a multiple_choice or true_false
\* question whose correct_answer is empty ends in an error, not in a grade.
C19_MissingCorrectAnswerFails ==
    (/\ ret.op = "evaluate_answer"
     /\ ret.arg.question.question_type \in {"multiple_choice", "true_false"}
     /\ Len(strip(ret.arg.question.correct_answer)) = 0
     /\ Len(strip(ret.arg.user_answer)) > 0)
    => ret.outcome # "ok"

\* C20: right after collect_study_material for a checkpoint, whatever was
\* collected, every document in the vector store carries that checkpoint's
\* id in its metadata; and the context generate_quiz retrieves then holds
\* no other checkpoint's material.
C20_NoCrossCheckpointDocuments ==
    Returned("collect_study_material") =>
        \A i \in 1..Len(documents) :
            documents[i].metadata.checkpoint_id = ret.arg.checkpoint.id


\* The stored documents whose metadata match the filter of the last search,
\* by their place in the store.
Matching == {i \in 1..Len(documents) :
                metadata_matches(documents[i], ret.arg.filter_metadata)}

\* C21: a search with k >= 1 returns, without raising, at most k results
\* with scores in non-increasing order, each a stored document whose
\* metadata match every item of the filter; the result is empty when the
\* store holds no document (as after clear) or none matches the filter.
C21_SearchContract ==
    ret.op = "search" =>
        /\ ret.outcome = "ok"
        /\ Len(ret.value) <= ret.arg.k
        /\ \A i \in 1..(Len(ret.value) - 1) :
               ret.value[i].score >= ret.value[i + 1].score
        /\ \A i \in 1..Len(ret.value) :
               /\ ret.value[i].doc \in Range(documents)
               /\ metadata_matches(ret.value[i].doc, ret.arg.filter_metadata)
        /\ (documents = <<>> \/ Matching = {}) => ret.value = <<>>

\* A filtered search returned two results of different scores.
C21_Witness ==
    /\ Returned("search")
    /\ ret.arg.filter_metadata # {}
    /\ Len(ret.value) = 2
    /\ ret.value[1].score > ret.value[2].score

\* C22: a search returns exactly min(k, number of stored documents that
\* match the filter) results, and they are the matching documents nearest
\* to the query.
C22_FilterDoesNotUnderfill ==
    ret.op = "search" =>
        LET wanted == IF ret.arg.k < Cardinality(Matching)
                      THEN ret.arg.k ELSE Cardinality(Matching)
            sim(i) == ret.arg.sim[documents[i].content]
        IN  /\ Len(ret.value) = wanted
            /\ \E place \in [1..Len(ret.value) -> Matching] :
                   /\ \A m, n \in 1..Len(ret.value) :
                          place[m] = place[n] => m = n
                   /\ \A n \in 1..Len(ret.value) :
                          ret.value[n].doc = documents[place[n]]
                   /\ \A i \in Matching \ Range(place) :
                          \A n \in 1..Len(ret.value) : sim(place[n]) >= sim(i)

\* The documents of a batch that have content, in the order given.
WithContent(docs) == SelectSeq(docs, LAMBDA doc : doc.content # <<>>)

\* C23: add_documents skips the documents without content and returns the
\* ids of the others in the order given; each id returned is one more
\* stored document, and clear leaves none, so the store holds as many
\* documents as ids were returned since the last clear.
C23_StoredCountsReturnedIds ==
    [][/\ ret'.op = "add_documents" =>
            LET kept == WithContent(ret'.arg)
            IN  /\ Len(ret'.value) = Len(kept)
                /\ \A i \in 1..Len(kept) :
                       "id" \in DOMAIN kept[i] => ret'.value[i] = kept[i].id
                /\ Len(documents') = Len(documents) + Len(ret'.value)
       /\ ret'.op = "clear" => documents' = <<>>]_vars

\* C24: an id that add_documents assigns by itself is not the id of a
\* document the store already holds, nor of one added earlier in the call.
C24_AutoIdIsFresh ==
    [][ret'.op = "add_documents" =>
          LET kept == WithContent(ret'.arg)
          IN  \A i \in 1..Len(ret'.value) :
                  "id" \notin DOMAIN kept[i] =>
                      /\ \A j \in 1..Len(documents) :
                             documents[j].id # ret'.value[i]
                      /\ \A j \in 1..(i - 1) :
                             ret'.value[j] # ret'.value[i]]_vars

\* The paragraphs of a text that are not blank.
NonBlank(paragraphs) == SelectSeq(paragraphs, LAMBDA para : ~para.blank)

\* The paragraphs of the stored chunks, one chunk after the other.
RECURSIVE ChunkParagraphs(_)
ChunkParagraphs(docs) ==
    IF docs = <<>> THEN <<>>
    ELSE Head(docs).content \o ChunkParagraphs(Tail(docs))

\* C25: the chunks stored for a content hold every non-blank paragraph of
\* the content exactly once and in the order of the content, and a chunk
\* longer than chunk_size is a single paragraph that is longer than
\* chunk_size by itself.
C25_ChunksKeepContent ==
    ret.op = "_store_in_vector_db" =>
        /\ NonBlank(ChunkParagraphs(documents)) = NonBlank(ret.arg.content)
        /\ \A i \in 1..Len(documents) :
               text_len(documents[i].content) > chunk_size =>
                   /\ Len(documents[i].content) = 1
                   /\ documents[i].content[1].len > chunk_size

\* A content with an empty paragraph was stored as a chunk of two
\* paragraphs and a chunk of one paragraph longer than chunk_size.
C25_Witness ==
    /\ Returned("_store_in_vector_db")
    /\ \E i \in 1..Len(ret.arg.content) : ret.arg.content[i].blank
    /\ \E i \in 1..Len(documents) : Len(documents[i].content) >= 2
    /\ \E i \in 1..Len(documents) :
           text_len(documents[i].content) > chunk_size

\* C29: the order list of the tracker holds exactly the ids of the active
\* session's checkpoints, each once, in the order the most recent
\* start_session was given, and the summary lists total_checkpoints entries.
C29_OrderMirrorsSession ==
    /\ checkpoints_order = checkpoint_keys
    /\ session_active => Len(checkpoints_summary) = total_checkpoints

\* C30: an id is in completed_checkpoints exactly when its checkpoint has
\* the status PASSED, and the completed count of the summary is the number
\* of checkpoints of the session with the status PASSED.
C30_CompletedIffPassed ==
    /\ \A cp_id \in DOMAIN checkpoints :
           cp_id \in Range(completed_checkpoints) <=> Status(cp_id) = PASSED
    /\ Len(completed_checkpoints) =
           Cardinality({cp_id \in DOMAIN checkpoints : Status(cp_id) = PASSED})

\* C28: when teach_weak_concepts is called, with any list of weak concepts,
\* for a checkpoint whose status is NEEDS_TEACHING, the status of the
\* checkpoint is IN_PROGRESS when the call returns.
C28_TeachingClearsGate ==
    [][(/\ ret'.op = "teach_weak_concepts"
        /\ ret'.outcome = "ok"
        /\ ret'.arg.checkpoint_id \in DOMAIN checkpoints
        /\ Status(ret'.arg.checkpoint_id) = NEEDS_TEACHING)
       => checkpoints'[ret'.arg.checkpoint_id].status = IN_PROGRESS]_vars

\* C26: when the quiz page has started a quiz for a checkpoint, the attempt
\* that makes attempt_count reach max_attempts included, the page shows the
\* questions of that attempt, so that it can be answered and submitted.
C26_StartedAttemptIsShown ==
    ret.op = "start_quiz_button" => quiz_tab_open

\* C27: the attempt number of a quiz started from the quiz page and
\* submitted is the attempt_count of its checkpoint at submission and the
\* attempt of the history entry recorded for it.
C27_AttemptNumberAgrees ==
    (ret.op = "evaluate_quiz" /\ ret.outcome = "ok") =>
        LET p == checkpoints[ret.arg]
        IN  /\ ret.value.attempt_number = p.attempt_count
            /\ ret.value.attempt_number =
                   p.quiz_results[Len(p.quiz_results)].attempt

====
